---- MODULE Spec2Model ----
(***************************************************************************)
(* Model of the two crawl loops of the real-estate scraper:                *)
(*   scraper_live.py           CSV output + seen-ids log file              *)
(*   scraper_live_tosqlite.py  SQLite record store                         *)
(* Text (URLs, identifiers, file contents) is a sequence of one-character  *)
(* strings, so that the regular expressions, the line-oriented seen log    *)
(* and the identifier extraction are computed the way the code does.       *)
(***************************************************************************)
EXTENDS Naturals, Integers, Sequences, FiniteSets, Bags, TLC

(***************************************************************************)
(* Bounds of the model.                                                    *)
(***************************************************************************)
\* pages of one cycle (max_pages_per_cycle / --max-pages-per-cycle, cut down)
MaxPages == 1
\* largest reading of the wall clock (now_iso)
MaxNow == 1
\* times the process is killed
MaxKills == 1
\* the longest delay asked of sleep_interruptible, in ticks of 50 ms
MaxSleep == 5
\* links of one list of a feed page handed to the collector on its own
MaxLinks == 2

(***************************************************************************)
(* Program constants.                                                      *)
(***************************************************************************)
\* \d{6,} : least number of digits of a listing-id suffix
MinIdDigits == 6
\* sleep_interruptible's step = 0.1 s and feed_retry_wait = 0.35 s, in ticks of 50 ms
sleep_step == 2
feed_retry_wait == 7
feed_retry_times == 2

(***************************************************************************)
(* Text helpers.                                                           *)
(***************************************************************************)
DigitChars == {"0", "1", "2", "3", "4", "5", "6", "7", "8", "9"}

\* characters str.strip() removes at both ends
SpaceChars == {" ", "\n", "\t"}

NL == "\n"

\* code-point order of the characters the model uses (sorted() compares by it)
CodePoint(c) ==
    CASE c = "\t" -> 9
      [] c = "\n" -> 10
      [] c = " " -> 32
      [] c = "#" -> 35
      [] c = "-" -> 45
      [] c = "/" -> 47
      [] c = "0" -> 48
      [] c = "1" -> 49
      [] c = "2" -> 50
      [] c = "3" -> 51
      [] c = "4" -> 52
      [] c = "5" -> 53
      [] c = "6" -> 54
      [] c = "7" -> 55
      [] c = "8" -> 56
      [] c = "9" -> 57
      [] c = "a" -> 97
      [] c = "b" -> 98
      [] c = "c" -> 99
      [] c = "g" -> 103
      [] c = "i" -> 105
      [] c = "l" -> 108
      [] c = "n" -> 110
      [] c = "s" -> 115
      [] c = "t" -> 116
      [] OTHER -> 200

\* s < t in Python's string order
RECURSIVE StrLess(_, _)
StrLess(s, t) ==
    IF t = <<>> THEN FALSE
    ELSE IF s = <<>> THEN TRUE
    ELSE IF CodePoint(Head(s)) # CodePoint(Head(t))
         THEN CodePoint(Head(s)) < CodePoint(Head(t))
         ELSE StrLess(Tail(s), Tail(t))

\* number of digits at the end of s
RECURSIVE TrailingDigits(_)
TrailingDigits(s) ==
    IF s = <<>> \/ s[Len(s)] \notin DigitChars THEN 0
    ELSE 1 + TrailingDigits(SubSeq(s, 1, Len(s) - 1))

\* re.search(r"-\d{6,}$", u): a hyphen followed by six or more digits up to the end
HasIdSuffix(u) ==
    LET n == TrailingDigits(u)
    IN  /\ n >= MinIdDigits
        /\ Len(u) > n
        /\ u[Len(u) - n] = "-"

\* u.split("#", 1)[0]
RECURSIVE StripFragment(_)
StripFragment(u) ==
    IF u = <<>> \/ Head(u) = "#" THEN <<>>
    ELSE <<Head(u)>> \o StripFragment(Tail(u))

\* the digits matched by \d+ at the start of s
RECURSIVE LeadingDigits(_)
LeadingDigits(s) ==
    IF s = <<>> \/ Head(s) \notin DigitChars THEN <<>>
    ELSE <<Head(s)>> \o LeadingDigits(Tail(s))

ListingsSegment == <<"/", "l", "i", "s", "t", "i", "n", "g", "s", "/">>

\* re.search(r"/listings/(\d+)", url): group 1 of the leftmost match, "" if none
RECURSIVE ListingsId(_)
ListingsId(u) ==
    IF Len(u) <= Len(ListingsSegment) THEN <<>>
    ELSE IF /\ SubSeq(u, 1, Len(ListingsSegment)) = ListingsSegment
            /\ u[Len(ListingsSegment) + 1] \in DigitChars
         THEN LeadingDigits(SubSeq(u, Len(ListingsSegment) + 1, Len(u)))
         ELSE ListingsId(Tail(u))

extract_listing_id(url) ==
    IF HasIdSuffix(url)
    THEN SubSeq(url, Len(url) - TrailingDigits(url) + 1, Len(url))
    ELSE ListingsId(url)

\* s.strip() (clean_text on text that holds no inner whitespace runs)
RECURSIVE Strip(_)
Strip(s) ==
    IF s = <<>> THEN <<>>
    ELSE IF Head(s) \in SpaceChars THEN Strip(Tail(s))
    ELSE IF s[Len(s)] \in SpaceChars THEN Strip(SubSeq(s, 1, Len(s) - 1))
    ELSE s


\* clean_text on the identifiers and ad numbers of the model: they hold no inner
\* whitespace run, no NBSP and no Arabic digit, so only the strip() acts
clean_text(s) == Strip(s)

(***************************************************************************)
(* The seen-ids log (scraper_live.py).  A file is [exists, data], data the *)
(* characters it holds.                                                    *)
(***************************************************************************)
NoFile == [exists |-> FALSE, data |-> <<>>]

\* "for line in f": the lines of a text, each with the "\n" that ends it
RECURSIVE SplitLines(_, _)
SplitLines(data, cur) ==
    IF data = <<>> THEN (IF cur = <<>> THEN <<>> ELSE <<cur>>)
    ELSE IF Head(data) = NL THEN <<Append(cur, NL)>> \o SplitLines(Tail(data), <<>>)
    ELSE SplitLines(Tail(data), Append(cur, Head(data)))

SeqRange(q) == {q[k] : k \in 1..Len(q)}

\* {line.strip() for line in f if line.strip()}, the empty set without the file
load_seen(file) ==
    IF ~file.exists THEN {}
    ELSE {Strip(l) : l \in SeqRange(SplitLines(file.data, <<>>))} \ {<<>>}

\* sorted(seen)
RECURSIVE Sorted(_)
Sorted(S) ==
    IF S = {} THEN <<>>
    ELSE LET m == CHOOSE x \in S : \A y \in S \ {x} : StrLess(x, y)
         IN  <<m>> \o Sorted(S \ {m})

\* f.write(x + "\n")
WriteLine(file, x) == [file EXCEPT !.data = @ \o x \o <<NL>>]

(***************************************************************************)
(* The record store (scraper_live_tosqlite.py): the rows of table listings *)
(***************************************************************************)
db_has_listing(conn, listing_id) == \E r \in conn : r.listing_id = listing_id

\* a variant for the touch check: an UPDATE that rewrites scraped_at as well
db_touch_rewrites(conn, listing_id, t) ==
    {IF r.listing_id = listing_id THEN [r EXCEPT !.last_seen_at = t, !.scraped_at = t]
     ELSE r : r \in conn}

\* UPDATE listings SET last_seen_at=? WHERE listing_id=?
db_touch_seen(conn, listing_id, t) ==
    {IF r.listing_id = listing_id THEN [r EXCEPT !.last_seen_at = t] ELSE r : r \in conn}

\* a variant for the idempotence check: a plain INSERT, without ON CONFLICT
db_upsert_plain_insert(conn, row) == conn \cup {row}

\* INSERT ... ON CONFLICT(listing_id) DO UPDATE SET <every other column>=excluded.<column>

db_upsert(conn, row) ==
    IF db_has_listing(conn, row.listing_id)
    THEN {IF r.listing_id = row.listing_id
          THEN [r EXCEPT !.listing_url = row.listing_url,
                         !.title = row.title,
                         !.scraped_at = row.scraped_at,
                         !.last_seen_at = row.last_seen_at]
          ELSE r : r \in conn}
    ELSE conn \cup {row}

(***************************************************************************)
(* The site: hrefs of the feed pages and what a detail page shows.         *)
(***************************************************************************)
UrlA == <<"a", "-", "1", "0", "0", "0", "0", "1">>
\* another URL of the same listing id
UrlA2 == <<"b", "-", "1", "0", "0", "0", "0", "1">>
UrlB == <<"a", "-", "1", "0", "0", "0", "0", "2">>
UrlC == <<"a", "-", "1", "0", "0", "0", "0", "3">>
\* UrlA with a fragment
UrlAFrag == UrlA \o <<"#", "t">>
\* fewer than six digits, no /listings/ segment: no identifier
UrlShort == <<"a", "-", "1", "2">>
UrlListings == <<"/", "l", "i", "s", "t", "i", "n", "g", "s", "/", "4", "2">>

\* stand-in for BASE = "https://www.realestate.com.au/"
BASE == <<"s", "a", "/">>

\* BASE.rstrip("/")
RECURSIVE RStripSlash(_)
RStripSlash(s) ==
    IF s # <<>> /\ s[Len(s)] = "/" THEN RStripSlash(SubSeq(s, 1, Len(s) - 1)) ELSE s

\* what the rendering collaborator returns for a feed page: the hrefs of the
\* card links, of all anchors, and the href attribute values in the markup
Feeds ==
    { [cards |-> <<>>, anchors |-> <<>>, html |-> <<>>],
      [cards |-> <<UrlA, UrlShort, UrlB, UrlAFrag, UrlListings, UrlC>>,
       anchors |-> <<UrlA, UrlShort, UrlB, UrlAFrag, UrlListings, UrlC>>,
       html |-> <<UrlA, UrlB, UrlC>>],
      [cards |-> <<UrlA, UrlA2, UrlB>>, anchors |-> <<UrlA, UrlA2, UrlB>>, html |-> <<>>],
      [cards |-> <<>>, anchors |-> <<UrlShort, UrlB>>, html |-> <<UrlC, UrlShort, UrlC>>] }

NoFeed == [cards |-> <<>>, anchors |-> <<>>, html |-> <<>>]

\* the ad number a listing carries when it is not the number in its URL
AdAlias == <<"9", "0", "0", "0", "0", "2">>

\* details.get("رقم الإعلان", "") of the detail page of url: absent or the number of
\* the URL; one listing carries a number of its own that no feed URL carries
AdNumbers(url) ==
    IF url = UrlB THEN {AdAlias} ELSE {<<>>, extract_listing_id(url)}

\* the titles the detail page of url may show
Titles(url) == {"t1"}

(***************************************************************************)
(* URL collector.                                                          *)
(***************************************************************************)
\* a variant for the empty-identifier check: the filter loop without the
\* test for the id suffix
RECURSIVE FilterUrlsAnyLink(_, _)
FilterUrlsAnyLink(urls, out) ==
    IF urls = <<>> THEN out
    ELSE LET u == StripFragment(Head(urls))
         IN  IF Head(urls) # <<>> /\ u \notin SeqRange(out)
             THEN FilterUrlsAnyLink(Tail(urls), Append(out, u))
             ELSE FilterUrlsAnyLink(Tail(urls), out)

\* a variant for the collector check: the filter loop without the set of
\* URLs already taken
RECURSIVE FilterUrlsKeepAll(_, _)
FilterUrlsKeepAll(urls, out) ==
    IF urls = <<>> THEN out
    ELSE LET u == StripFragment(Head(urls))
         IN  IF Head(urls) # <<>> /\ HasIdSuffix(u)
             THEN FilterUrlsKeepAll(Tail(urls), Append(out, u))
             ELSE FilterUrlsKeepAll(Tail(urls), out)

\* the filter loop shared by both collectors: drop empty hrefs, strip the
\* fragment, keep the URLs with an id suffix, first appearance only
RECURSIVE FilterUrls(_, _)
FilterUrls(urls, out) ==
    IF urls = <<>> THEN out
    ELSE LET u == StripFragment(Head(urls))
         IN  IF Head(urls) # <<>> /\ HasIdSuffix(u) /\ u \notin SeqRange(out)
             THEN FilterUrls(Tail(urls), Append(out, u))
             ELSE FilterUrls(Tail(urls), out)

\* re.findall(r'href="([^"]+-\d{6,})"', html): the attribute values that end in
\* -<six or more digits> with at least one character before the hyphen
RECURSIVE FindHrefs(_)
FindHrefs(html) ==
    IF html = <<>> THEN <<>>
    ELSE LET v == Head(html)
         IN  IF HasIdSuffix(v) /\ Len(v) - TrailingDigits(v) >= 2
             THEN <<v>> \o FindHrefs(Tail(html))
             ELSE FindHrefs(Tail(html))

RECURSIVE Absolute(_)
Absolute(found) ==
    IF found = <<>> THEN <<>>
    ELSE LET u == Head(found)
         IN  <<IF u # <<>> /\ Head(u) = "/" THEN RStripSlash(BASE) \o u ELSE u>>
             \o Absolute(Tail(found))

extract_urls_from_html(html) == FilterUrls(Absolute(FindHrefs(html)), <<>>)

\* scraper_live_tosqlite.py
collect_listing_urls(page) ==
    LET out == FilterUrls(page.cards, <<>>)
    IN  IF out # <<>> THEN out ELSE extract_urls_from_html(page.html)

\* scraper_live.py
collect_listing_urls_live(page) ==
    FilterUrls(IF page.cards # <<>> THEN page.cards ELSE page.anchors, <<>>)


(***************************************************************************)
(* State.                                                                  *)
(***************************************************************************)
VARIABLES
    prog,        \* which script runs: "live" (CSV + seen log) or "sqlite"
    pc,          \* position of main()
    STOP,        \* the global stop flag
    signals,     \* history: SIGINT/SIGTERM deliveries to this process: 0, 1, 2 = more
    pnum,        \* feed page number of the for loop
    attempts,    \* collection attempts made for this feed page (sqlite)
    rendered,    \* the feed page as last rendered
    urls,        \* the URLs collected from it
    idx,         \* position of the for loop over urls
    row,         \* the record scrape_listing returned
    seen,        \* the in-memory seen set (live)
    seenFile,    \* the seen-ids log at args.seen (live)
    tmpFile,     \* args.seen + ".tmp" (live)
    saveQ,       \* lines save_seen has still to write (live)
    csv,         \* the rows of the CSV output, as a bag: row -> times written (live)
    db,          \* the rows of table listings (sqlite)
    now,         \* the wall clock
    firstScraped,\* history: listing_id -> scraped_at of the upsert that inserted it
    stat,        \* history of the feed page in progress
    stopFlips,   \* history: times STOP went from False to True in this process
    teardowns,   \* history: times the finally block ran in this process
    kills,       \* history: times the process was killed
    res,         \* the resources main() holds and the close calls of its finally block
    call,        \* a function called on its own: its arguments and what it returned
    grace        \* history: records persisted since STOP was set in this process

vars == <<prog, pc, STOP, signals, pnum, attempts, rendered, urls, idx, row, seen,
          seenFile, tmpFile, saveQ, csv, db, now, firstScraped, stat, stopFlips,
          teardowns, kills, res, call, grace>>

\* what a process owns in memory besides pc and the signal state
loopVars == <<pnum, attempts, rendered, urls, idx, row, stat>>
liveDisk == <<seenFile, tmpFile, csv>>
storeVars == <<db, firstScraped, kills>>
sigVars == <<STOP, signals, stopFlips>>

NoRow == [listing_id |-> <<>>, listing_url |-> <<>>, title |-> "", scraped_at |-> 0,
          last_seen_at |-> 0]

NoStat == [seen0 |-> 0, visits |-> 0, persisted |-> 0, touched |-> 0]

\* nothing acquired, nothing closed
NoRes == [acq |-> {}, closed |-> <<>>, failed |-> FALSE]

\* no function is called on its own while main() runs
NoCall == [fn |-> "main"]

Init ==
    /\ prog \in {"live", "sqlite"}
    /\ pc = "start"
    /\ STOP = FALSE
    /\ signals = 0
    /\ pnum = 1
    /\ attempts = 0
    /\ rendered = NoFeed
    /\ urls = <<>>
    /\ idx = 1
    /\ row = NoRow
    /\ seen = {}
    /\ seenFile = NoFile
    /\ tmpFile = NoFile
    /\ saveQ = <<>>
    /\ csv = EmptyBag
    /\ db = {}
    /\ now = 0
    /\ firstScraped = {}
    /\ stat = NoStat
    /\ stopFlips = 0
    /\ teardowns = 0
    /\ kills = 0
    /\ res = NoRes
    /\ call = NoCall
    /\ grace = 0

Alive == pc \notin {"exited", "dead"}

(***************************************************************************)
(* Signals and the clock.                                                  *)
(***************************************************************************)
\* a variant for the signal check: a handler that toggles the flag
handle_stop_toggle(stop) == ~stop

\* handle_stop: the value of STOP after the handler ran
handle_stop(stop) == IF ~stop THEN TRUE ELSE stop

\* SIGINT or SIGTERM is delivered; both are bound to handle_stop
Signal ==
    /\ Alive
    /\ \E sig \in {"SIGINT", "SIGTERM"} :
          /\ STOP' = handle_stop(STOP)
          /\ stopFlips' = stopFlips + (IF ~STOP /\ STOP' THEN 1 ELSE 0)
    /\ signals' = IF signals = 0 THEN 1 ELSE 2
    /\ UNCHANGED <<prog, pc, loopVars, seen, liveDisk, saveQ, storeVars, now, teardowns, res, call, grace>>

\* now_iso(): a clock reading, never before the last one
ClockReadings(last) == last..MaxNow

(***************************************************************************)
(* main(): start-up, the cycle and page loops.                             *)
(***************************************************************************)
(***************************************************************************)
(* The resources of main() and its finally block.                          *)
(***************************************************************************)
\* the rendering session, in the order main() acquires it
Session == <<"pw", "browser", "context", "page">>

\* what main() holds when the first k parts of the session are acquired: the
\* sqlite script has connected to the store before
Acquired(p, k) ==
    {Session[i] : i \in 1..k} \cup (IF p = "sqlite" THEN {"conn"} ELSE {})

\* the close calls of the finally block, in its order; the live script has no
\* store handle and closes its page with the context
CloseOrder(p) ==
    IF p = "sqlite" THEN <<"page", "context", "browser", "pw", "conn">>
    ELSE <<"context", "browser", "pw">>

\* a variant for the teardown check: one try block around all the close calls
RECURSIVE TeardownOneTry(_, _, _)
TeardownOneTry(order, acq, fails) ==
    IF order = <<>> THEN <<>>
    ELSE IF Head(order) \notin acq THEN TeardownOneTry(Tail(order), acq, fails)
    ELSE IF Head(order) \in fails THEN <<Head(order)>>
    ELSE <<Head(order)>> \o TeardownOneTry(Tail(order), acq, fails)

\* the finally block: each close call sits in a try block of its own, guarded
\* by "if x:" (conn is always there); the result is the calls made, in order
RECURSIVE Teardown(_, _, _)
Teardown(order, acq, fails) ==
    IF order = <<>> THEN <<>>
    ELSE IF Head(order) \notin acq THEN Teardown(Tail(order), acq, fails)
    ELSE <<Head(order)>> \o Teardown(Tail(order), acq, fails)

\* a variant for the dedup tracker check: start-up without load_seen
StartNoReload ==
    /\ pc = "start"
    /\ seen' = {}
    /\ pc' = "while"
    /\ res' = [NoRes EXCEPT !.acq = Acquired(prog, Len(Session))]
    /\ UNCHANGED <<prog, sigVars, loopVars, liveDisk, saveQ, storeVars, now, teardowns, call, grace>>

\* ensure_csv, load_seen / db_connect, then the browser session
Start ==
    /\ pc = "start"
    /\ seen' = IF prog = "live" THEN load_seen(seenFile) ELSE seen
    /\ pc' = "while"
    /\ res' = [NoRes EXCEPT !.acq = Acquired(prog, Len(Session))]
    /\ UNCHANGED <<prog, sigVars, loopVars, liveDisk, saveQ, storeVars, now, teardowns, call, grace>>

\* a part of the session cannot be acquired: the exception leaves the try block
StartFails ==
    /\ pc = "start"
    /\ seen' = IF prog = "live" THEN load_seen(seenFile) ELSE seen
    /\ \E k \in 0..(Len(Session) - 1) : res' = [NoRes EXCEPT !.acq = Acquired(prog, k)]
    /\ pc' = "finally"
    /\ UNCHANGED <<prog, sigVars, loopVars, liveDisk, saveQ, storeVars, now, teardowns, call, grace>>

\* an exception no try block of the loop catches: scroll_to_load's page.evaluate
\* raises; sqlite: page.wait_for_timeout of the retry loop or db_touch_seen raises
LoopRaises ==
    /\ \/ pc = "goto_feed"
       \/ prog = "sqlite" /\ pc = "retry_wait"
       \/ /\ prog = "sqlite" /\ pc = "for_url" /\ idx <= Len(urls) /\ ~STOP
          /\ db_has_listing(db, extract_listing_id(urls[idx]))
    /\ pc' = "finally"
    /\ UNCHANGED <<prog, sigVars, loopVars, seen, liveDisk, saveQ, storeVars, now, teardowns, res, call, grace>>

\* a variant for the shutdown check: a cycle loop that never tests STOP
WhileTrue ==
    /\ pc = "while"
    /\ pc' = "for_page" /\ pnum' = 1
    /\ UNCHANGED <<prog, sigVars, attempts, rendered, urls, idx, row, stat, seen, liveDisk,
                   saveQ, storeVars, now, teardowns, res, call, grace>>

\* while not STOP:
While ==
    /\ pc = "while"
    /\ IF STOP THEN pc' = "finally" /\ pnum' = pnum
               ELSE pc' = "for_page" /\ pnum' = 1
    /\ UNCHANGED <<prog, sigVars, attempts, rendered, urls, idx, row, stat, seen, liveDisk,
                   saveQ, storeVars, now, teardowns, res, call, grace>>

\* for pnum in range(1, max_pages + 1): if STOP: break
ForPage ==
    /\ pc = "for_page"
    /\ pc' = IF pnum > MaxPages \/ STOP THEN "cycle_sleep" ELSE "goto_feed"
    /\ UNCHANGED <<prog, sigVars, loopVars, seen, liveDisk, saveQ, storeVars, now, teardowns, res, call, grace>>

\* page.goto(feed_url) returns and scroll_to_load has run
GotoFeedOk ==
    /\ pc = "goto_feed"
    /\ pc' = "scrolled"
    /\ UNCHANGED <<prog, sigVars, loopVars, seen, liveDisk, saveQ, storeVars, now, teardowns, res, call, grace>>

\* page.goto(feed_url) raises PWTimeoutError (continue) or PWError (live: break
\* when STOP is set, else continue)
GotoFeedFails ==
    /\ pc = "goto_feed"
    /\ \E err \in {"PWTimeoutError", "PWError"} :
          IF prog = "live" /\ err = "PWError" /\ STOP
          THEN pc' = "cycle_sleep" /\ pnum' = pnum
          ELSE pc' = "for_page" /\ pnum' = pnum + 1
    /\ UNCHANGED <<prog, sigVars, attempts, rendered, urls, idx, row, stat, seen, liveDisk,
                   saveQ, storeVars, now, teardowns, res, call, grace>>

\* sqlite: if STOP: break, after the scrolling; then the collection starts
Scrolled ==
    /\ pc = "scrolled"
    /\ pc' = IF prog = "sqlite" /\ STOP THEN "cycle_sleep" ELSE "collect"
    /\ attempts' = 0
    /\ UNCHANGED <<prog, sigVars, pnum, rendered, urls, idx, row, stat, seen, liveDisk,
                   saveQ, storeVars, now, teardowns, res, call, grace>>

\* the key the dedup check of the live script uses
SeenKey(u) == IF extract_listing_id(u) # <<>> THEN extract_listing_id(u) ELSE u

\* has(id) of the dedup tracker
Has(id) == IF prog = "live" THEN id \in seen ELSE db_has_listing(db, id)

\* how many of the collected URLs the dedup check reports as seen
SeenCount(us) == Cardinality({k \in 1..Len(us) : Has(SeenKey(us[k]))})

\* urls = collect_listing_urls(page); live: an empty page sleeps and continues;
\* sqlite: an empty result waits and is tried again
Collect ==
    /\ pc = "collect"
    /\ \E page \in Feeds :
          LET us == IF prog = "live" THEN collect_listing_urls_live(page)
                    ELSE collect_listing_urls(page)
          IN  /\ rendered' = page
              /\ urls' = us
              /\ stat' = [NoStat EXCEPT !.seen0 = SeenCount(us)]
              /\ pc' = IF us # <<>> THEN "for_url"
                       ELSE IF prog = "live" THEN "empty_sleep" ELSE "retry_wait"
              \* the attempt counter of range(feed_retry_times + 1) dies at the break
              /\ attempts' = IF us # <<>> \/ prog = "live" THEN 0 ELSE attempts + 1
    /\ idx' = 1
    /\ UNCHANGED <<prog, sigVars, pnum, row, seen, liveDisk, saveQ, storeVars, now, teardowns, res, call, grace>>

\* a variant for the retry bound check: range(feed_retry_times + 2)
RetryWaitOneMore ==
    /\ pc = "retry_wait"
    /\ pc' = IF attempts < feed_retry_times + 2 THEN "collect" ELSE "for_url"
    /\ attempts' = IF attempts < feed_retry_times + 2 THEN attempts ELSE 0
    /\ UNCHANGED <<prog, sigVars, pnum, rendered, urls, idx, row, stat, seen, liveDisk, saveQ,
                   storeVars, now, teardowns, res, call, grace>>

\* page.wait_for_timeout(feed_retry_wait) and the next turn of range(feed_retry_times + 1)
RetryWait ==
    /\ pc = "retry_wait"
    /\ pc' = IF attempts < feed_retry_times + 1 THEN "collect" ELSE "for_url"
    /\ attempts' = IF attempts < feed_retry_times + 1 THEN attempts ELSE 0
    /\ UNCHANGED <<prog, sigVars, pnum, rendered, urls, idx, row, stat, seen, liveDisk, saveQ,
                   storeVars, now, teardowns, res, call, grace>>

\* live: sleep_interruptible(page_delay); continue
EmptySleep ==
    /\ pc = "empty_sleep"
    /\ pc' = "for_page"
    /\ pnum' = pnum + 1
    /\ UNCHANGED <<prog, sigVars, attempts, rendered, urls, idx, row, stat, seen, liveDisk,
                   saveQ, storeVars, now, teardowns, res, call, grace>>


(***************************************************************************)
(* The loop over the URLs of one feed page.                                *)
(***************************************************************************)
\* for u in urls: exhausted, or if STOP: break
ForUrlEnd ==
    /\ pc = "for_url"
    /\ idx > Len(urls) \/ STOP
    /\ pc' = "page_sleep"
    /\ UNCHANGED <<prog, sigVars, loopVars, seen, liveDisk, saveQ, storeVars, now, teardowns, res, call, grace>>

\* the dedup check says "known": live skips the URL; sqlite skips a URL without
\* identifier and touches last_seen_at of a stored one
ForUrlKnown ==
    /\ pc = "for_url"
    /\ idx <= Len(urls) /\ ~STOP
    /\ LET u == urls[idx]
           lid == extract_listing_id(u)
       IN  IF prog = "live"
           THEN /\ SeenKey(u) \in seen
                /\ UNCHANGED <<db, stat, now>>
           ELSE /\ lid = <<>> \/ db_has_listing(db, lid)
                /\ IF lid = <<>>
                   THEN UNCHANGED <<db, stat, now>>
                   ELSE /\ \E t \in ClockReadings(now) :
                              /\ db' = db_touch_seen(db, lid, t)
                              /\ now' = t
                        /\ stat' = [stat EXCEPT !.touched = @ + 1]
    /\ idx' = idx + 1
    /\ UNCHANGED <<prog, pc, sigVars, pnum, attempts, rendered, urls, row, seen, liveDisk,
                   saveQ, firstScraped, kills, teardowns, res, call, grace>>

\* a variant for the end-to-end check: every URL is visited, seen or not
ForUrlNewNoDedup ==
    /\ pc = "for_url"
    /\ idx <= Len(urls) /\ ~STOP
    /\ pc' = "scrape"
    /\ UNCHANGED <<prog, sigVars, loopVars, seen, liveDisk, saveQ, storeVars, now, teardowns, res, call, grace>>

\* a variant for the grace tail check: the loop over the URLs without the
\* STOP test
ForUrlNewAfterStop ==
    /\ pc = "for_url"
    /\ idx <= Len(urls)
    /\ LET u == urls[idx]
           lid == extract_listing_id(u)
       IN  IF prog = "live" THEN SeenKey(u) \notin seen
           ELSE lid # <<>> /\ ~db_has_listing(db, lid)
    /\ pc' = "scrape"
    /\ UNCHANGED <<prog, sigVars, loopVars, seen, liveDisk, saveQ, storeVars, now, teardowns, res, call, grace>>

\* the dedup check says "new": the detail page is visited
ForUrlNew ==
    /\ pc = "for_url"
    /\ idx <= Len(urls) /\ ~STOP
    /\ LET u == urls[idx]
           lid == extract_listing_id(u)
       IN  IF prog = "live" THEN SeenKey(u) \notin seen
           ELSE lid # <<>> /\ ~db_has_listing(db, lid)
    /\ pc' = "scrape"
    /\ UNCHANGED <<prog, sigVars, loopVars, seen, liveDisk, saveQ, storeVars, now, teardowns, res, call, grace>>

\* listing_id = clean_text(details.get("رقم الإعلان", "")) or extract_listing_id(url)
ListingIdOf(adno, url) ==
    IF clean_text(adno) # <<>> THEN clean_text(adno) ELSE extract_listing_id(url)

\* scrape_listing / scrape_listing_fast returns the record (the live record keeps
\* here only the fields the CSV checks read)
ScrapeOk ==
    /\ pc = "scrape"
    /\ \E adno \in AdNumbers(urls[idx]), title \in Titles(urls[idx]),
          t1 \in ClockReadings(now) :
       \E t2 \in ClockReadings(t1) :
          /\ prog = "live" => (title = "t1" /\ t1 = now /\ t2 = now)
          /\ row' = [listing_id |-> ListingIdOf(adno, urls[idx]),
                     listing_url |-> urls[idx],
                     title |-> IF prog = "live" THEN "" ELSE title,
                     scraped_at |-> IF prog = "live" THEN 0 ELSE t1,
                     last_seen_at |-> IF prog = "live" THEN 0 ELSE t2]
          /\ now' = t2
          /\ pc' = IF prog = "live" THEN "append_csv"
                   ELSE IF row'.listing_id # <<>> THEN "db_upsert" ELSE "listing_sleep"
    /\ stat' = [stat EXCEPT !.visits = @ + 1]
    /\ UNCHANGED <<prog, sigVars, pnum, attempts, rendered, urls, idx, seen, liveDisk, saveQ,
                   storeVars, teardowns, res, call, grace>>

\* a variant for the per-listing failure check: the exception of the visit is
\* not caught and ends the run
ScrapeFailsAborts ==
    /\ pc = "scrape"
    /\ pc' = "finally"
    /\ stat' = [stat EXCEPT !.visits = @ + 1]
    /\ UNCHANGED <<prog, sigVars, pnum, attempts, rendered, urls, idx, row, seen, liveDisk,
                   saveQ, storeVars, now, teardowns, res, call, grace>>

\* the visit raises: PWError (live: break when STOP is set) or another Exception
ScrapeFails ==
    /\ pc = "scrape"
    /\ \E err \in {"PWError", "Exception"} :
          pc' = IF prog = "live" /\ err = "PWError" /\ STOP THEN "page_sleep"
                ELSE "listing_sleep"
    /\ stat' = [stat EXCEPT !.visits = @ + 1]
    /\ UNCHANGED <<prog, sigVars, pnum, attempts, rendered, urls, idx, row, seen, liveDisk,
                   saveQ, storeVars, now, teardowns, res, call, grace>>

\* append_csv writes the row
AppendCsvOk ==
    /\ pc = "append_csv"
    /\ csv' = csv (+) SetToBag({[listing_id |-> row.listing_id,
                                  listing_url |-> row.listing_url]})
    /\ stat' = [stat EXCEPT !.persisted = @ + 1]
    /\ grace' = IF STOP THEN grace + 1 ELSE grace
    /\ pc' = "seen_add"
    /\ UNCHANGED <<prog, sigVars, pnum, attempts, rendered, urls, idx, row, seen, seenFile,
                   tmpFile, saveQ, storeVars, now, teardowns, res, call>>

\* a variant for the failed-persist check: the key is marked although
\* append_csv raised
AppendCsvFailsMarks ==
    /\ pc = "append_csv"
    /\ seen' = seen \cup {SeenKey(urls[idx])}
    /\ pc' = "listing_sleep"
    /\ UNCHANGED <<prog, sigVars, loopVars, liveDisk, saveQ, storeVars, now, teardowns, res, call, grace>>

\* append_csv raises: except Exception, then the listing delay
AppendCsvFails ==
    /\ pc = "append_csv"
    /\ pc' = "listing_sleep"
    /\ UNCHANGED <<prog, sigVars, loopVars, seen, liveDisk, saveQ, storeVars, now, teardowns, res, call, grace>>

\* seen.add(key)
SeenAdd ==
    /\ pc = "seen_add"
    /\ seen' = seen \cup {SeenKey(urls[idx])}
    /\ pc' = "save_open"
    /\ UNCHANGED <<prog, sigVars, loopVars, liveDisk, saveQ, storeVars, now, teardowns, res, call, grace>>

\* a variant for the atomic-save check: the log itself is opened for writing
SaveOpenInPlace ==
    /\ pc = "save_open"
    /\ seenFile' = [exists |-> TRUE, data |-> <<>>]
    /\ tmpFile' = [exists |-> TRUE, data |-> <<>>]
    /\ saveQ' = Sorted(seen)
    /\ pc' = "save_write"
    /\ UNCHANGED <<prog, sigVars, loopVars, seen, csv, storeVars, now, teardowns, res, call, grace>>

\* save_seen: open(tmp, "w") truncates the temp file
SaveOpen ==
    /\ pc = "save_open"
    /\ tmpFile' = [exists |-> TRUE, data |-> <<>>]
    /\ saveQ' = Sorted(seen)
    /\ pc' = "save_write"
    /\ UNCHANGED <<prog, sigVars, loopVars, seen, seenFile, csv, storeVars, now, teardowns, res, call, grace>>

\* save_seen: f.write(x + "\n") for the next identifier
SaveWrite ==
    /\ pc = "save_write"
    /\ saveQ # <<>>
    /\ tmpFile' = WriteLine(tmpFile, Head(saveQ))
    /\ saveQ' = Tail(saveQ)
    /\ UNCHANGED <<prog, pc, sigVars, loopVars, seen, seenFile, csv, storeVars, now, teardowns, res, call, grace>>

\* save_seen: os.replace(tmp, path)
SaveReplace ==
    /\ pc = "save_write"
    /\ saveQ = <<>>
    /\ seenFile' = tmpFile
    /\ tmpFile' = NoFile
    /\ pc' = "listing_sleep"
    /\ UNCHANGED <<prog, sigVars, loopVars, seen, csv, saveQ, storeVars, now, teardowns, res, call, grace>>

\* db_upsert commits the row
DbUpsertOk ==
    /\ pc = "db_upsert"
    /\ db' = db_upsert(db, row)
    /\ firstScraped' = IF db_has_listing(db, row.listing_id) THEN firstScraped
                       ELSE firstScraped \cup {<<row.listing_id, row.scraped_at>>}
    /\ stat' = [stat EXCEPT !.persisted = @ + 1]
    /\ grace' = IF STOP THEN grace + 1 ELSE grace
    /\ pc' = "listing_sleep"
    /\ UNCHANGED <<prog, sigVars, pnum, attempts, rendered, urls, idx, row, seen, liveDisk,
                   saveQ, now, kills, teardowns, res, call>>

\* db_upsert raises and the store is left as it was: except Exception
DbUpsertFails ==
    /\ pc = "db_upsert"
    /\ pc' = "listing_sleep"
    /\ UNCHANGED <<prog, sigVars, loopVars, seen, liveDisk, saveQ, storeVars, now, teardowns, res, call, grace>>

\* sleep_interruptible(delay), next URL
ListingSleep ==
    /\ pc = "listing_sleep"
    /\ idx' = idx + 1
    /\ row' = NoRow
    /\ pc' = "for_url"
    /\ UNCHANGED <<prog, sigVars, pnum, attempts, rendered, urls, stat, seen, liveDisk, saveQ,
                   storeVars, now, teardowns, res, call, grace>>

\* sleep_interruptible(page_delay), next page
PageSleep ==
    /\ pc = "page_sleep"
    /\ pnum' = pnum + 1
    /\ rendered' = NoFeed
    /\ urls' = <<>>
    /\ idx' = 1
    /\ row' = NoRow
    /\ stat' = NoStat
    /\ pc' = "for_page"
    /\ UNCHANGED <<prog, sigVars, attempts, seen, liveDisk, saveQ, storeVars, now, teardowns, res, call, grace>>

\* end of the cycle: sleep_interruptible(page_delay), back to the while test
CycleSleep ==
    /\ pc = "cycle_sleep"
    /\ pc' = "while"
    /\ UNCHANGED <<prog, sigVars, loopVars, seen, liveDisk, saveQ, storeVars, now, teardowns, res, call, grace>>

\* the finally block: the session (and the store handle) are closed
Finally ==
    /\ pc = "finally"
    /\ teardowns' = teardowns + 1
    /\ pc' = "exited"
    /\ \E fails \in SUBSET res.acq :
          res' = [res EXCEPT !.closed = Teardown(CloseOrder(prog), res.acq, fails),
                             !.failed = (fails \cap SeqRange(CloseOrder(prog)) # {})]
    /\ UNCHANGED <<prog, sigVars, loopVars, seen, liveDisk, saveQ, storeVars, now, call, grace>>

(***************************************************************************)
(* The process is started again, or killed.                                *)
(***************************************************************************)
FreshProcess ==
    /\ pc' = "start"
    /\ STOP' = FALSE
    /\ signals' = 0
    /\ stopFlips' = 0
    /\ teardowns' = 0
    /\ pnum' = 1
    /\ attempts' = 0
    /\ rendered' = NoFeed
    /\ urls' = <<>>
    /\ idx' = 1
    /\ row' = NoRow
    /\ stat' = NoStat
    /\ seen' = {}
    /\ saveQ' = <<>>
    /\ res' = NoRes
    /\ grace' = 0

\* the script is run again after it exited or died; files and store are as left
Restart ==
    /\ ~Alive
    /\ FreshProcess
    /\ UNCHANGED <<prog, liveDisk, storeVars, now, call>>

\* SIGKILL, power loss: the process ends where it stands, its memory is gone.
\* Only the live script is killed here: the store commits each statement as a
\* whole and the sqlite script keeps nothing else, so a kill leaves it where a
\* stop signal and the next STOP test leave it.
Kill ==
    /\ prog = "live"
    /\ Alive
    /\ kills < MaxKills
    /\ kills' = kills + 1
    /\ pc' = "dead"
    /\ STOP' = FALSE
    /\ signals' = 0
    /\ stopFlips' = 0
    /\ teardowns' = 0
    /\ pnum' = 1
    /\ attempts' = 0
    /\ rendered' = NoFeed
    /\ urls' = <<>>
    /\ idx' = 1
    /\ row' = NoRow
    /\ stat' = NoStat
    /\ seen' = {}
    /\ saveQ' = <<>>
    /\ res' = NoRes
    /\ grace' = 0
    /\ UNCHANGED <<prog, liveDisk, db, firstScraped, now, call>>

Next ==
    \/ Signal
    \/ Start
    \/ StartFails
    \/ LoopRaises
    \/ While
    \/ ForPage
    \/ GotoFeedOk
    \/ GotoFeedFails
    \/ Scrolled
    \/ Collect
    \/ RetryWait
    \/ EmptySleep
    \/ ForUrlEnd
    \/ ForUrlKnown
    \/ ForUrlNew
    \/ ScrapeOk
    \/ ScrapeFails
    \/ AppendCsvOk
    \/ AppendCsvFails
    \/ SeenAdd
    \/ SaveOpen
    \/ SaveWrite
    \/ SaveReplace
    \/ DbUpsertOk
    \/ DbUpsertFails
    \/ ListingSleep
    \/ PageSleep
    \/ CycleSleep
    \/ Finally
    \/ Restart

\* the run with graceful stops only
Spec == Init /\ [][Next]_vars

NextKill == Next \/ Kill

\* the run that may also be killed at any step
SpecKill == Init /\ [][NextKill]_vars

\* a step of the running process: every call it makes returns or raises
Step ==
    \/ Start \/ StartFails \/ LoopRaises \/ While \/ ForPage \/ GotoFeedOk \/ GotoFeedFails
    \/ Scrolled \/ Collect \/ RetryWait \/ EmptySleep \/ ForUrlEnd \/ ForUrlKnown
    \/ ForUrlNew \/ ScrapeOk \/ ScrapeFails \/ AppendCsvOk \/ AppendCsvFails \/ SeenAdd
    \/ SaveOpen \/ SaveWrite \/ SaveReplace \/ DbUpsertOk \/ DbUpsertFails
    \/ ListingSleep \/ PageSleep \/ CycleSleep \/ Finally

\* the run whose process keeps taking steps while it has one to take
SpecLive == Spec /\ WF_vars(Step)

(***************************************************************************)
(* A function called on its own: main() stands at its start, the variable  *)
(* call holds the arguments, the progress and the result of the function.  *)
(***************************************************************************)
\* everything of main() but the stop flag and the call
idleVars == <<prog, pc, signals, pnum, attempts, rendered, urls, idx, row, seen, seenFile,
              tmpFile, saveQ, csv, db, now, firstScraped, stat, stopFlips, teardowns,
              kills, res, grace>>

\* main() has not started
Idle ==
    /\ pc = "start" /\ signals = 0 /\ pnum = 1 /\ attempts = 0 /\ rendered = NoFeed
    /\ urls = <<>> /\ idx = 1 /\ row = NoRow /\ seen = {} /\ seenFile = NoFile
    /\ tmpFile = NoFile /\ saveQ = <<>> /\ csv = EmptyBag /\ db = {} /\ now = 0
    /\ firstScraped = {} /\ stat = NoStat /\ stopFlips = 0 /\ teardowns = 0
    /\ kills = 0 /\ res = NoRes /\ grace = 0

(***************************************************************************)
(* The delays of the crawl loop. Time is counted in ticks of 50 ms.        *)
(***************************************************************************)
\* the delays main() asks for and the function that waits: the listing, page
\* and cycle delays and the scroll pause go through sleep_interruptible, the
\* empty-page wait through sleep_interruptible in the live script and through
\* page.wait_for_timeout in the retry loop of the sqlite script
DelayKinds == {"listing", "page", "cycle", "scroll", "empty"}

WaitFn(p, kind) ==
    IF p = "sqlite" /\ kind = "empty" THEN "wait_for_timeout" ELSE "sleep_interruptible"

\* the durations asked for: any configured value for sleep_interruptible,
\* feed_retry_wait for the retry loop
Durations(p, kind) ==
    IF WaitFn(p, kind) = "wait_for_timeout" THEN {feed_retry_wait} ELSE 0..MaxSleep

NotYet == 0 - 1

InitSleep ==
    /\ Idle
    /\ prog \in {"live", "sqlite"}
    /\ STOP \in BOOLEAN
    /\ \E kind \in DelayKinds :
       \E seconds \in Durations(prog, kind) :
          call = [fn |-> WaitFn(prog, kind), kind |-> kind, seconds |-> seconds,
                  t |-> 0, end |-> 0, wake |-> 0, at |-> "called", slept |-> 0,
                  stop0 |-> STOP, stopAt |-> IF STOP THEN 0 ELSE NotYet, ret |-> NotYet]

Max0(x) == IF x > 0 THEN x ELSE 0

\* end = time.time() + max(0.0, seconds)
SleepCalled ==
    /\ call.fn = "sleep_interruptible" /\ call.at = "called"
    /\ call' = [call EXCEPT !.end = call.t + Max0(call.seconds), !.at = "while"]
    /\ UNCHANGED <<idleVars, STOP>>

\* while time.time() < end: if STOP: return; time.sleep(step or what remains)
SleepWhile ==
    /\ call.fn = "sleep_interruptible" /\ call.at = "while"
    /\ call' =
          IF call.t < call.end /\ ~STOP
          THEN LET remaining == call.end - call.t
               IN  [call EXCEPT !.at = "sleeping", !.slept = @ + 1,
                                !.wake = call.t + (IF remaining > sleep_step
                                                   THEN sleep_step ELSE remaining)]
          ELSE [call EXCEPT !.at = "returned", !.ret = call.t]
    /\ UNCHANGED <<idleVars, STOP>>

\* page.wait_for_timeout(int(feed_retry_wait * 1000)) starts to wait
WaitCalled ==
    /\ call.fn = "wait_for_timeout" /\ call.at = "called"
    /\ call' = [call EXCEPT !.at = "sleeping", !.slept = @ + 1,
                            !.wake = call.t + call.seconds]
    /\ UNCHANGED <<idleVars, STOP>>

\* time passes in time.sleep or in the page's timer
SleepTick ==
    /\ call.at = "sleeping" /\ call.t < call.wake
    /\ call' = [call EXCEPT !.t = @ + 1]
    /\ UNCHANGED <<idleVars, STOP>>

\* time.sleep returns to the loop; the page's timer returns to the caller
SleepWakes ==
    /\ call.at = "sleeping" /\ call.t = call.wake
    /\ call' = IF call.fn = "sleep_interruptible" THEN [call EXCEPT !.at = "while"]
               ELSE [call EXCEPT !.at = "returned", !.ret = call.t]
    /\ UNCHANGED <<idleVars, STOP>>

\* SIGINT or SIGTERM arrives while the delay is in progress
SleepSignal ==
    /\ call.at # "returned"
    /\ STOP' = handle_stop(STOP)
    /\ call' = [call EXCEPT !.stopAt = IF ~STOP /\ STOP' THEN call.t ELSE @]
    /\ UNCHANGED idleVars

NextSleep ==
    \/ SleepCalled
    \/ SleepWhile
    \/ WaitCalled
    \/ SleepTick
    \/ SleepWakes
    \/ SleepSignal

\* one delay of the crawl loop, with the stop signal arriving at any moment
SpecSleep == InitSleep /\ [][NextSleep]_vars

(***************************************************************************)
(* The URL collector called on its own, on any small feed page.            *)
(***************************************************************************)
\* a relative link, as the markup has it
RelC == <<"/", "c", "-", "1", "0", "0", "0", "0", "3">>
\* digits after a hyphen, but inside the fragment
FragTrap == <<"a", "#", "-", "1", "0", "0", "0", "0", "1">>

\* the hrefs a feed page may carry: listing links, one with a fragment, one
\* without identifier, a relative one, the trap, an empty href
Hrefs == {UrlA, UrlAFrag, UrlShort, RelC, FragTrap, <<>>}

\* the lists of up to n hrefs
RECURSIVE HrefLists(_)
HrefLists(n) ==
    IF n = 0 THEN {<<>>}
    ELSE LET shorter == HrefLists(n - 1)
         IN  shorter \cup {Append(q, h) : q \in {x \in shorter : Len(x) = n - 1}, h \in Hrefs}

\* the feed pages: any card links, any anchors, and markup that is empty, shows
\* the anchors, or shows a relative link before them
Pages ==
    {[cards |-> c, anchors |-> a, html |-> h] :
        c \in HrefLists(MaxLinks), a \in HrefLists(MaxLinks),
        h \in {<<>>, <<RelC>>}} \cup
    {[cards |-> c, anchors |-> a, html |-> a] :
        c \in HrefLists(MaxLinks), a \in HrefLists(MaxLinks)}

InitCollect ==
    /\ Idle
    /\ prog \in {"live", "sqlite"}
    /\ STOP = FALSE
    /\ \E page \in Pages :
          call = [fn |-> "collect_listing_urls", page |-> page, at |-> "called",
                  out |-> <<>>]

\* collect_listing_urls(page) returns
CollectReturns ==
    /\ call.fn = "collect_listing_urls" /\ call.at = "called"
    /\ call' = [call EXCEPT !.at = "returned",
                            !.out = IF prog = "live"
                                    THEN collect_listing_urls_live(call.page)
                                    ELSE collect_listing_urls(call.page)]
    /\ UNCHANGED <<idleVars, STOP>>

NextCollect == CollectReturns

SpecCollect == InitCollect /\ [][NextCollect]_vars

(***************************************************************************)
(* The detail page parsers and the record built from their fragments,      *)
(* called on their own. Label and keyword stand-ins: "M" is the word for   *)
(* city in a title, "H" the word for district; amounts are in tenths.      *)
(***************************************************************************)
CityX == <<"x">>
CityY == <<"y">>
DistD == <<"d">>

\* parse_address_tab3: the items of the address tab by label, "" without one;
\* tab is the sequence of <<label, value>> items, empty without the tab
RECURSIVE TabValue(_, _, _)
TabValue(tab, label, sofar) ==
    IF tab = <<>> THEN sofar
    ELSE TabValue(Tail(tab), label,
                  IF Head(tab)[1] = label THEN clean_text(Head(tab)[2]) ELSE sofar)

parse_address_tab3(tab) ==
    [city |-> TabValue(tab, "city", <<>>), district |-> TabValue(tab, "district", <<>>)]

\* no script element, or text json.loads rejects
NoLd == [parsed |-> FALSE]

NoAmount == [kind |-> "none"]

\* float(price) if isinstance(price, (int, float)) else None: price is the JSON
\* value of offers.price; bool is an int, NaN and Infinity are floats
LdAmount(price) ==
    IF price.t = "int" THEN [kind |-> "num", tenths |-> price.v * 10]
    ELSE IF price.t = "bool" THEN [kind |-> "num", tenths |-> IF price.v THEN 10 ELSE 0]
    ELSE IF price.t = "float" THEN [kind |-> price.v]
    ELSE NoAmount

\* parse_ld_json: the fragment of the JSON-LD object; addressLocality is taken
\* as the district and the city is set to ""
parse_ld_json(ld) ==
    IF ~ld.parsed THEN [city |-> <<>>, district |-> <<>>, price_amount |-> NoAmount]
    ELSE [city |-> <<>>,
          district |-> clean_text(ld.locality),
          price_amount |-> LdAmount(ld.price)]

AmountChars == DigitChars \cup {",", "."}

\* the text re.search(r"(\d[\d,\.]*)", full_norm) captures, <<>> without a digit
RECURSIVE AmountRun(_)
AmountRun(s) ==
    IF s = <<>> \/ Head(s) \notin AmountChars THEN <<>>
    ELSE <<Head(s)>> \o AmountRun(Tail(s))

RECURSIVE FirstAmount(_)
FirstAmount(s) ==
    IF s = <<>> THEN <<>>
    ELSE IF Head(s) \in DigitChars THEN AmountRun(s)
    ELSE FirstAmount(Tail(s))

RECURSIVE Without(_, _)
Without(s, c) ==
    IF s = <<>> THEN <<>>
    ELSE (IF Head(s) = c THEN <<>> ELSE <<Head(s)>>) \o Without(Tail(s), c)

DigitValue(c) == CHOOSE n \in 0..9 : <<"0", "1", "2", "3", "4", "5", "6", "7", "8", "9">>[n + 1] = c

RECURSIVE DigitsValue(_, _)
DigitsValue(s, acc) ==
    IF s = <<>> THEN acc ELSE DigitsValue(Tail(s), acc * 10 + DigitValue(Head(s)))

\* float(num) of a text of digits and dots that starts with a digit: a value
\* (in tenths, further decimals cut) with at most one dot, ValueError with more
ToFloat(num) ==
    LET dots == {i \in 1..Len(num) : num[i] = "."}
    IN  IF Cardinality(dots) > 1 THEN NoAmount
        ELSE IF dots = {} THEN [kind |-> "num", tenths |-> DigitsValue(num, 0) * 10]
        ELSE LET d == CHOOSE i \in dots : TRUE
                 whole == DigitsValue(SubSeq(num, 1, d - 1), 0)
                 frac == IF d < Len(num) THEN DigitValue(num[d + 1]) ELSE 0
             IN  [kind |-> "num", tenths |-> whole * 10 + frac]

NoH2 == [present |-> FALSE]

\* parse_price_dom: the amount in the price heading, None without heading,
\* without a digit in it, or when float() rejects the text
parse_price_dom(h2) ==
    IF ~h2.present THEN [price_amount |-> NoAmount]
    ELSE LET m_amt == FirstAmount(clean_text(h2.text))
         IN  [price_amount |-> IF m_amt = <<>> THEN NoAmount
                               ELSE ToFloat(Without(m_amt, ","))]

\* re.search(kw + r"\s+([^,]+)", title) on a cleaned title: the text after the
\* first keyword that a space and a character other than a comma follow, up
\* to the next comma; "" without a match
RECURSIVE UpToComma(_)
UpToComma(s) ==
    IF s = <<>> \/ Head(s) = "," THEN <<>> ELSE <<Head(s)>> \o UpToComma(Tail(s))

RECURSIVE TitleField(_, _)
TitleField(kw, title) ==
    IF Len(title) < 3 THEN <<>>
    ELSE IF title[1] = kw /\ title[2] = " " /\ title[3] # ","
         THEN clean_text(UpToComma(SubSeq(title, 3, Len(title))))
         ELSE TitleField(kw, Tail(title))

\* parse_main_listing_fields: the city and district read from the title
parse_main_listing_fields(title) ==
    [city |-> TitleField("M", clean_text(title)),
     district |-> TitleField("H", clean_text(title))]

\* a or b of two texts
Or(a, b) == IF a # <<>> THEN a ELSE b

\* scrape_listing_fast: address tab first, then the JSON-LD fragment; the DOM
\* price first, then offers.price
scrape_listing_fast(page) ==
    LET ld == parse_ld_json(page.ld)
        dom_price == parse_price_dom(page.h2)
        addr3 == parse_address_tab3(page.tab)
    IN  [city |-> Or(addr3.city, clean_text(ld.city)),
         district |-> Or(addr3.district, clean_text(ld.district)),
         price_amount |-> IF dom_price.price_amount # NoAmount THEN dom_price.price_amount
                          ELSE ld.price_amount]

\* scrape_listing: address tab first, then the title; the price is kept as text
scrape_listing(page) ==
    LET main == parse_main_listing_fields(page.title)
        address == parse_address_tab3(page.tab)
    IN  [city |-> Or(address.city, main.city),
         district |-> Or(address.district, main.district),
         price_amount |-> NoAmount]

\* the detail pages: address tab, JSON-LD object, title, price heading
Tabs ==
    {<<>>, <<<<"city", CityX \o <<" ">>>>>>, <<<<"district", DistD>>>>,
     <<<<"city", CityX>>, <<"district", DistD>>>>}

JsonPrices ==
    {[t |-> "null"], [t |-> "str"], [t |-> "int", v |-> 250], [t |-> "int", v |-> 0],
     [t |-> "int", v |-> 0 - 100], [t |-> "bool", v |-> TRUE],
     [t |-> "float", v |-> "nan"], [t |-> "float", v |-> "inf"]}

LdObjects ==
    {NoLd} \cup {[parsed |-> TRUE, locality |-> l, price |-> p] :
                    l \in {<<>>, CityY}, p \in JsonPrices}

Titles3 ==
    {<<>>, <<"f", "l", "a", "t">>,
     <<"f", " ", "H", " ", "n", ",", " ", "M", " ", "r">>}

Headings ==
    {NoH2} \cup {[present |-> TRUE, text |-> t] :
                    t \in {<<"1", ",", "5", "0", "0", " ", "/", "y">>,
                           <<"1", "2", ".", "5">>,
                           <<"-", "5", "0">>,
                           <<"1", ".", "2", ".", "3">>,
                           <<"a", "s", "k">>}}

DetailPages ==
    {[tab |-> tab, ld |-> ld, title |-> title, h2 |-> h2] :
        tab \in Tabs, ld \in LdObjects, title \in Titles3, h2 \in Headings}

InitScrape ==
    /\ Idle
    /\ prog \in {"live", "sqlite"}
    /\ STOP = FALSE
    /\ \E page \in DetailPages :
          call = [fn |-> "scrape_listing", page |-> page, at |-> "called",
                  row |-> [city |-> <<>>, district |-> <<>>, price_amount |-> NoAmount]]

\* the record is built from the page
ScrapeReturns ==
    /\ call.fn = "scrape_listing" /\ call.at = "called"
    /\ call' = [call EXCEPT !.at = "returned",
                            !.row = IF prog = "live" THEN scrape_listing(call.page)
                                    ELSE scrape_listing_fast(call.page)]
    /\ UNCHANGED <<idleVars, STOP>>

NextScrape == ScrapeReturns

SpecScrape == InitScrape /\ [][NextScrape]_vars

(***************************************************************************)
(* parse_ld_json called on its own, on the markup of a detail page: what   *)
(* the script element holds, what json.loads makes of it, and the fragment *)
(* built from the value.                                                   *)
(***************************************************************************)
\* an integer literal too long for a float: float(price) raises OverflowError
BigPrice == [t |-> "bigint"]

\* the JSON objects of a listing
JsonObjects ==
    {[t |-> "object", locality |-> l, price |-> p] :
        l \in {<<>>, CityY}, p \in JsonPrices \cup {BigPrice}}

\* the values json.loads returns: an object, an array (empty or of one
\* object), a string, a number, true/false, null
JsonValues ==
    JsonObjects \cup {[t |-> "array", items |-> <<>>]}
                \cup {[t |-> "array", items |-> <<o>>] : o \in JsonObjects}
                \cup {[t |-> "str"], [t |-> "number"], [t |-> "bool"], [t |-> "null"]}

NoData == [t |-> "none"]

\* the script element: absent; without a string (empty element); with a text
\* that is blank, is not JSON, or is the text of a JSON value
ScriptBlocks ==
    {[present |-> FALSE, string |-> FALSE, valid |-> FALSE, data |-> NoData],
     [present |-> TRUE, string |-> FALSE, valid |-> FALSE, data |-> NoData]}
    \cup {[present |-> TRUE, string |-> TRUE, valid |-> FALSE, data |-> [t |-> bad]] :
             bad \in {"blank", "syntax"}}
    \cup {[present |-> TRUE, string |-> TRUE, valid |-> TRUE, data |-> v] : v \in JsonValues}

\* the empty fragment {}
EmptyFragment == [empty |-> TRUE, frag |-> parse_ld_json(NoLd)]

\* data.get(...) needs a dict: AttributeError for a list, str, int, float, bool
\* and None; float(price) overflows for an int beyond the float range
BuildRaises(data) ==
    \/ data.t # "object"
    \/ data.t = "object" /\ data.price = BigPrice

\* the fragment built from a JSON object: ld_json, title and description are
\* always set
BuildFragment(data) ==
    [empty |-> FALSE,
     frag |-> parse_ld_json([parsed |-> TRUE, locality |-> data.locality, price |-> data.price])]

InitLdJson ==
    /\ Idle
    /\ prog = "sqlite"
    /\ STOP = FALSE
    /\ \E script \in ScriptBlocks :
          call = [fn |-> "parse_ld_json", script |-> script, at |-> "called",
                  data |-> NoData, out |-> EmptyFragment]

\* script = soup.select_one(...); if not script or not script.string: return {}
LdJsonSelect ==
    /\ call.fn = "parse_ld_json" /\ call.at = "called"
    /\ call' = [call EXCEPT !.at = IF call.script.present /\ call.script.string
                                   THEN "selected" ELSE "returned"]
    /\ UNCHANGED <<idleVars, STOP>>

\* data = json.loads(script.string.strip()); except Exception: return {}
LdJsonLoads ==
    /\ call.fn = "parse_ld_json" /\ call.at = "selected"
    /\ call' = IF call.script.valid
               THEN [call EXCEPT !.at = "loaded", !.data = call.script.data]
               ELSE [call EXCEPT !.at = "returned"]
    /\ UNCHANGED <<idleVars, STOP>>

\* the rest of the function, outside the try block: return out, or the
\* exception leaves the function
LdJsonBuild ==
    /\ call.fn = "parse_ld_json" /\ call.at = "loaded"
    /\ call' = IF BuildRaises(call.data)
               THEN [call EXCEPT !.at = "raised"]
               ELSE [call EXCEPT !.at = "returned", !.out = BuildFragment(call.data)]
    /\ UNCHANGED <<idleVars, STOP>>

NextLdJson ==
    \/ LdJsonSelect
    \/ LdJsonLoads
    \/ LdJsonBuild

SpecLdJson == InitLdJson /\ [][NextLdJson]_vars

(***************************************************************************)
(* Helpers of the properties.                                              *)
(***************************************************************************)
\* the identifiers of the stored rows
StoredIds(conn) == {r.listing_id : r \in conn}

\* the rows the CSV output holds
CsvRows == BagToSet(csv)

\* how many CSV rows carry listing_id
CsvCount(listing_id) ==
    LET rs == {r \in CsvRows : r.listing_id = listing_id}
        RECURSIVE Sum(_)
        Sum(S) == IF S = {} THEN 0
                  ELSE LET r == CHOOSE x \in S : TRUE IN CopiesIn(r, csv) + Sum(S \ {r})
    IN  Sum(rs)

\* the dedup keys of the feed URLs whose record the output holds
PersistedKeys ==
    IF prog = "live" THEN {SeenKey(r.listing_url) : r \in CsvRows}
    ELSE {SeenKey(r.listing_url) : r \in db}

\* the identifiers the dedup tracker answers "seen" for
HasSet == IF prog = "live" THEN seen ELSE StoredIds(db)

\* the text save_seen writes for a set of identifiers
RECURSIVE LogText(_)
LogText(q) == IF q = <<>> THEN <<>> ELSE Head(q) \o <<NL>> \o LogText(Tail(q))

SavePcs == {"save_open", "save_write"}

\* the URL loop of the page ran to its end (no break)
PageDone == pc = "page_sleep" /\ idx > Len(urls)

DistinctIds(us) ==
    \A j, k \in 1..Len(us) : j # k => extract_listing_id(us[j]) # extract_listing_id(us[k])

(***************************************************************************)
(* C1: the stored row's scraped_at (first-scraped timestamp) always equals *)
(* the value written by the upsert that inserted the row: upsert on an     *)
(* existing identifier leaves it untouched.                                *)
(***************************************************************************)
C1_FirstScrapedKept ==
    prog = "sqlite" => \A r \in db : <<r.listing_id, r.scraped_at>> \in firstScraped

(***************************************************************************)
(* C2: upsert is idempotent: applying the record about to be written twice *)
(* leaves exactly one row for its listing_id, equal to the row after one   *)
(* application except possibly for last_seen_at, and every other row as it *)
(* was.                                                                    *)
(***************************************************************************)
MaskLastSeen(conn) == {[r EXCEPT !.last_seen_at = 0] : r \in conn}

C2_UpsertIdempotent ==
    (prog = "sqlite" /\ pc = "db_upsert") =>
        LET once == db_upsert(db, row)
            twice == db_upsert(once, row)
        IN  /\ Cardinality({r \in twice : r.listing_id = row.listing_id}) = 1
            /\ Cardinality({r \in once : r.listing_id = row.listing_id}) = 1
            /\ MaskLastSeen(twice) = MaskLastSeen(once)
            /\ {r \in twice : r.listing_id # row.listing_id}
                  = {r \in db : r.listing_id # row.listing_id}

\* an upsert is about to hit a stored identifier, with other rows in the store
C2_Witness ==
    /\ prog = "sqlite" /\ pc = "db_upsert"
    /\ db_has_listing(db, row.listing_id)
    /\ Cardinality(db) >= 2

(***************************************************************************)
(* C3: every identifier under which a record was persisted is in the seen  *)
(* set when the next feed page is processed, so a feed URL of a persisted  *)
(* listing is reported seen and its detail page is not fetched again, also *)
(* when the persisted listing_id is the ad number and differs from the     *)
(* identifier of the URL.                                                  *)
(***************************************************************************)
C3_PersistedIsSeen ==
    /\ pc = "goto_feed" =>
          \A id \in (IF prog = "live" THEN {r.listing_id : r \in CsvRows} ELSE StoredIds(db)) :
              Has(id)
    /\ pc = "scrape" => SeenKey(urls[idx]) \notin PersistedKeys

PersistFailsStep ==
    \/ pc = "append_csv" /\ pc' = "listing_sleep"
    \/ pc = "db_upsert" /\ pc' = "listing_sleep" /\ stat'.persisted = stat.persisted

C5_FailedPersistNotSeen ==
    /\ [][PersistFailsStep =>
            /\ seen' = seen /\ seenFile' = seenFile /\ db' = db /\ csv' = csv
            /\ ~Has(SeenKey(urls[idx]))'
            /\ idx' = idx /\ urls' = urls]_vars
    /\ [][(prog = "live" /\ pc # "start" /\ pc' \notin {"start", "dead"} /\ seen' # seen)
            => pc = "seen_add" /\ seen' = seen \cup {SeenKey(urls[idx])}]_vars
    /\ [][(prog = "sqlite" /\ StoredIds(db') # StoredIds(db))
            => pc = "db_upsert" /\ stat'.persisted = stat.persisted + 1]_vars
    /\ [][(pc = "for_url" /\ idx <= Len(urls) /\ ~STOP /\ ~Has(SeenKey(urls[idx]))
           /\ pc' # pc /\ Alive')
            => pc' = "scrape"]_vars

\* the listing delay after append_csv raised for a listing that is not seen,
\* on a page that still has a URL to go
C5_Witness ==
    /\ prog = "live" /\ pc = "listing_sleep"
    /\ row.listing_id # <<>>
    /\ SeenKey(urls[idx]) \notin seen
    /\ idx < Len(urls)

(***************************************************************************)
(* C6: no row with an empty listing_id is ever written to the CSV output   *)
(* or to the record store; a link without identifier on the feed page      *)
(* costs nothing but itself, the loop goes on to the other listings.       *)
(***************************************************************************)
C6_NoEmptyIdPersisted ==
    /\ \A r \in CsvRows : r.listing_id # <<>>
    /\ \A r \in db : r.listing_id # <<>>
    /\ pc \in {"append_csv", "db_upsert"} => row.listing_id # <<>>

\* links without identifier among the rendered anchors
NoIdLinks(page) ==
    {k \in 1..Len(page.cards) : extract_listing_id(page.cards[k]) = <<>>}

\* the page held a link without identifier before its last listing, the URL
\* loop ran to its end and persisted the listings around that link
C6_Witness ==
    /\ PageDone
    /\ \E k \in NoIdLinks(rendered) : 1 < k /\ k < Len(rendered.cards)
    /\ stat.persisted >= 2
    /\ Alive

C8_NoDuplicateWork ==
    prog = "live" =>
        /\ \A r \in CsvRows : CsvCount(r.listing_id) <= 1
        /\ pc = "scrape" => SeenKey(urls[idx]) \notin PersistedKeys

(***************************************************************************)
(* C9: the seen log is rewritten atomically and round-trips: the file at   *)
(* the log's path always holds complete contents, one identifier per line, *)
(* sorted; while save_seen runs, and when the process dies in it, the file *)
(* holds the previous set; once save_seen returned, load_seen of the file  *)
(* is exactly the set that was saved.                                      *)
(***************************************************************************)
WellFormed(file) == file.exists => file.data = LogText(Sorted(load_seen(file)))

C10_SignalIdempotent ==
    /\ [](stopFlips <= 1 /\ teardowns <= 1)
    /\ [](Alive /\ signals >= 1 => STOP /\ stopFlips = 1)
    /\ [](STOP => handle_stop(STOP) = STOP)
    /\ [](pc = "exited" <=> teardowns = 1)
    \* the flag stays up for the rest of the process
    /\ [][(STOP /\ pc' # "start") => STOP']_vars
    \* a signal that finds the flag up changes nothing but the count of deliveries
    /\ [][(STOP /\ signals' # signals /\ pc' # "start") =>
            UNCHANGED <<prog, pc, STOP, pnum, attempts, rendered, urls, idx, row, seen,
                        seenFile, tmpFile, saveQ, csv, db, now, firstScraped, stat,
                        stopFlips, teardowns, kills>>]_vars
    \* the first signal raises the flag
    /\ [][(signals = 0 /\ signals' = 1) => ~STOP /\ STOP' /\ stopFlips' = 1]_vars

\* a process that got both signals, one after the flag was up, has exited
C10_Witness ==
    /\ signals = 2 /\ stopFlips = 1 /\ STOP
    /\ pc = "exited" /\ teardowns = 1

(***************************************************************************)
(* C11: once the stop flag is set the run reaches SHUTDOWN (the finally    *)
(* block has run, the process has exited), from wherever in the crawl loop *)
(* it stands, provided every call returns or raises; SHUTDOWN is the only  *)
(* state the process ends in, and no crawl step follows it.                *)
(***************************************************************************)
C11_StopReachesShutdown ==
    /\ (STOP /\ Alive) ~> (pc = "exited")
    \* a process that has not exited always has a step to take
    /\ [](Alive => ENABLED Step)
    \* after SHUTDOWN the process takes no step; only a new process may start
    /\ [](pc = "exited" => ~ENABLED Step)
    /\ [][pc = "exited" => pc' = "start" \/ UNCHANGED vars]_vars
    \* SHUTDOWN is entered through the finally block only
    /\ [][(pc # "exited" /\ pc' = "exited") => pc = "finally"]_vars

\* a process stopped while it held records has shut down and closed its session
C11_Witness ==
    /\ pc = "exited" /\ STOP /\ signals = 1
    /\ res.closed # <<>>
    /\ db # {} \/ csv # EmptyBag

(***************************************************************************)
(* C12: every configured delay of the crawl loop (listing, page and cycle  *)
(* delay, scroll pause, empty-page retry wait) is interruptible: when the  *)
(* stop flag rises during the delay, the delay returns within one polling  *)
(* interval (step) of that moment; a delay asked for with the flag already *)
(* set returns without sleeping.                                           *)
(***************************************************************************)
C12_DelaysInterruptible ==
    (call.fn \in {"sleep_interruptible", "wait_for_timeout"} /\ call.at = "returned"
     /\ call.stopAt # NotYet) =>
        /\ call.ret - call.stopAt <= sleep_step
        /\ call.stop0 => (call.slept = 0 /\ call.ret = 0)

(***************************************************************************)
(* C13: however the run ends (stop signal, exception in the loop, failure  *)
(* while the session is acquired), the finally block attempts to close     *)
(* every resource that was acquired, in its fixed order, a close call that *)
(* raises does not keep the later ones from being made, and the page and   *)
(* browser session are closed before the store handle.                     *)
(***************************************************************************)
\* q lists elements of order, each once, in the order of order
RECURSIVE InOrderOf(_, _)
InOrderOf(q, order) ==
    IF q = <<>> THEN TRUE
    ELSE IF order = <<>> THEN FALSE
    ELSE IF Head(q) = Head(order) THEN InOrderOf(Tail(q), Tail(order))
    ELSE InOrderOf(q, Tail(order))

\* the close call that releases resource r: the live script's page goes with
\* its context
ClosedBy(r) == IF prog = "live" /\ r = "page" THEN "context" ELSE r

C13_TeardownComplete ==
    /\ Alive => res.closed = <<>>
    /\ pc = "exited" =>
          /\ teardowns = 1
          /\ \A r \in res.acq : ClosedBy(r) \in SeqRange(res.closed)
          /\ SeqRange(res.closed) \subseteq res.acq
          /\ InOrderOf(res.closed, CloseOrder(prog))
          /\ \A i, j \in 1..Len(res.closed) :
                (res.closed[i] = "conn" /\ res.closed[j] # "conn") => j < i

\* the sqlite script left its loop by an exception after it had stored a record,
\* a close call raised, and all five close calls were made
C13_Witness ==
    /\ prog = "sqlite" /\ pc = "exited" /\ ~STOP
    /\ db # {}
    /\ res.failed
    /\ res.closed = <<"page", "context", "browser", "pw", "conn">>

(***************************************************************************)
(* C14: for every rendered feed page the list the URL collector returns    *)
(* holds no URL twice, holds only URLs that end in a hyphen and six or     *)
(* more digits (no fragment left), and keeps the URLs in the order of      *)
(* their first appearance in the list of hrefs or the markup they came     *)
(* from.                                                                   *)
(***************************************************************************)
\* position of the first x in q, 0 without one
FirstIndex(q, x) ==
    IF \E i \in 1..Len(q) : q[i] = x
    THEN CHOOSE i \in 1..Len(q) : q[i] = x /\ \A j \in 1..(i - 1) : q[j] # x
    ELSE 0

\* the links of a source as the collector reads them: without fragment, a
\* relative link of the markup made absolute
AsRead(q, markup) ==
    [i \in 1..Len(q) |->
        StripFragment(IF markup /\ q[i] # <<>> /\ Head(q[i]) = "/"
                      THEN <<"s", "a">> \o q[i] ELSE q[i])]

\* out lists links of src, in the order of their first appearance in src
FirstAppearanceOrder(out, src) ==
    /\ \A i \in 1..Len(out) : FirstIndex(src, out[i]) > 0
    /\ \A i, j \in 1..Len(out) :
          i < j => FirstIndex(src, out[i]) < FirstIndex(src, out[j])

C14_CollectorOutput ==
    (call.fn = "collect_listing_urls" /\ call.at = "returned") =>
        LET out == call.out
        IN  /\ \A i, j \in 1..Len(out) : i # j => out[i] # out[j]
            /\ \A i \in 1..Len(out) :
                  /\ "#" \notin SeqRange(out[i])
                  /\ Len(out[i]) >= MinIdDigits + 1
                  /\ \A k \in (Len(out[i]) - MinIdDigits + 1)..Len(out[i]) :
                        out[i][k] \in DigitChars
                  /\ \E k \in 1..Len(out[i]) :
                        /\ out[i][k] = "-"
                        /\ \A m \in (k + 1)..Len(out[i]) : out[i][m] \in DigitChars
            /\ \/ FirstAppearanceOrder(out, AsRead(call.page.cards, FALSE))
               \/ FirstAppearanceOrder(out, AsRead(call.page.anchors, FALSE))
               \/ FirstAppearanceOrder(out, AsRead(call.page.html, TRUE))

\* the collector returned one URL for card links that carry it twice, once
\* with a fragment
C14_Witness ==
    /\ call.fn = "collect_listing_urls" /\ call.at = "returned"
    /\ call.page.cards = <<UrlAFrag, UrlA>>
    /\ call.out = <<UrlA>>

(***************************************************************************)
(* C15: for city and for district the record's value is the first          *)
(* non-empty value among the address-tab fragment, the structured-metadata *)
(* (JSON-LD) fragment and the value the title regex finds.                 *)
(***************************************************************************)
FirstNonEmpty(a, b, c) == IF a # <<>> THEN a ELSE IF b # <<>> THEN b ELSE c

C15_AddressPrecedence ==
    (call.fn = "scrape_listing" /\ call.at = "returned") =>
        LET tab == parse_address_tab3(call.page.tab)
            ld == parse_ld_json(call.page.ld)
            title == parse_main_listing_fields(call.page.title)
        IN  /\ call.row.city = FirstNonEmpty(tab.city, ld.city, title.city)
            /\ call.row.district = FirstNonEmpty(tab.district, ld.district, title.district)

(***************************************************************************)
(* C16: price_amount of every record is absent or a non-negative finite    *)
(* number, from the DOM price heading or from offers.price.                *)
(***************************************************************************)
C16_PriceNonNegative ==
    (call.fn = "scrape_listing" /\ call.at = "returned") =>
        \/ call.row.price_amount = NoAmount
        \/ call.row.price_amount.kind = "num" /\ call.row.price_amount.tenths >= 0

(***************************************************************************)
(* C17: db_touch_seen(id) changes at most last_seen_at of the row with     *)
(* that id: its other columns (scraped_at among them), the other rows and  *)
(* the set of stored identifiers stay, and the store stays as it is for an *)
(* id that is not stored. The crawl loop takes this path exactly when the  *)
(* identifier of the URL is stored, and then does not visit the detail     *)
(* page of that URL.                                                       *)
(***************************************************************************)
\* the identifiers a feed URL or a detail page of the site may give
SiteIds == {extract_listing_id(UrlA), extract_listing_id(UrlB), extract_listing_id(UrlC),
            AdAlias}

TouchFrame(conn, id, t) ==
    LET after == db_touch_seen(conn, id, t)
    IN  /\ StoredIds(after) = StoredIds(conn)
        /\ Cardinality(after) = Cardinality(conn)
        /\ \A r \in conn : r.listing_id # id => r \in after
        /\ \A r \in conn : r.listing_id = id => [r EXCEPT !.last_seen_at = t] \in after
        /\ ~db_has_listing(conn, id) => after = conn

C17_TouchOnly ==
    /\ [](prog = "sqlite" => \A id \in SiteIds, t \in 0..MaxNow : TouchFrame(db, id, t))
    \* a touch in the loop: the URL's id is stored, the store changes as
    \* db_touch_seen says, no visit, on to the next URL
    /\ [][stat'.touched > stat.touched =>
            /\ prog = "sqlite" /\ pc = "for_url" /\ pc' = "for_url"
            /\ db_has_listing(db, extract_listing_id(urls[idx]))
            /\ db' = db_touch_seen(db, extract_listing_id(urls[idx]), now')
            /\ TouchFrame(db, extract_listing_id(urls[idx]), now')
            /\ firstScraped' = firstScraped
            /\ stat'.touched = stat.touched + 1
            /\ stat'.visits = stat.visits /\ stat'.persisted = stat.persisted
            /\ idx' = idx + 1]_vars
    \* a stored id is touched, never visited; an id that is not stored is
    \* never touched
    /\ [][(prog = "sqlite" /\ pc = "for_url" /\ pc' = "scrape") =>
            ~db_has_listing(db, extract_listing_id(urls[idx]))]_vars
    /\ [][(prog = "sqlite" /\ pc = "for_url" /\ idx <= Len(urls) /\ ~STOP
           /\ db_has_listing(db, extract_listing_id(urls[idx]))
           /\ <<pc, idx>>' # <<pc, idx>> /\ pc' \notin {"finally", "start"})
            => stat'.touched = stat.touched + 1]_vars

\* a page whose stored listing was touched: its row is seen later than scraped
C17_Witness ==
    /\ prog = "sqlite" /\ stat.touched >= 1
    /\ Cardinality(db) >= 2
    /\ \E r \in db : r.last_seen_at > r.scraped_at

(***************************************************************************)
(* C18: a failure on one listing (the visit raises, append_csv or          *)
(* db_upsert raises) while STOP is not set is a skip of that listing: the  *)
(* loop goes to the listing delay and on to the next URL of the same page, *)
(* then to the next page and the next cycle; nothing between the visit and *)
(* the end of the cycle leads to the finally block.                        *)
(***************************************************************************)
\* the visit was made and returned no record, or persisting raised
ListingFailsStep ==
    \/ pc = "scrape" /\ stat'.visits = stat.visits + 1 /\ row' = row
    \/ pc = "append_csv" /\ pc' # pc /\ csv' = csv
    \/ pc = "db_upsert" /\ pc' # pc /\ stat'.persisted = stat.persisted

ListingPcs == {"scrape", "append_csv", "seen_add", "save_open", "save_write", "db_upsert",
               "listing_sleep"}

C19_RetryBounded ==
    \* attempts counts the empty attempts made for the page
    /\ [](attempts \in 0..(feed_retry_times + 1))
    /\ [](pc = "collect" => attempts <= feed_retry_times)
    /\ [](prog = "live" => attempts = 0)
    /\ [][(pc = "collect" /\ pc' # pc) =>
            IF urls' = <<>>
            THEN /\ pc' = IF prog = "live" THEN "empty_sleep" ELSE "retry_wait"
                 /\ prog = "sqlite" => attempts' = attempts + 1
            ELSE pc' = "for_url" /\ attempts' = 0]_vars
    \* after the wait: another attempt while fewer than feed_retry_times + 1
    \* were made, else the page is empty
    /\ [][(pc = "retry_wait" /\ pc' \notin {pc, "finally"}) =>
            /\ urls = <<>> /\ urls' = urls /\ pnum' = pnum
            /\ IF attempts < feed_retry_times + 1
               THEN pc' = "collect" /\ attempts' = attempts
               ELSE pc' = "for_url"]_vars
    /\ [][(pc = "for_url" /\ urls = <<>> /\ pc' # pc) => pc' = "page_sleep"]_vars
    /\ [][(pc = "empty_sleep" /\ pc' # pc) =>
            urls = <<>> /\ pc' = "for_page" /\ pnum' = pnum + 1]_vars
    \* a page is taken as empty only from the wait after the last attempt
    /\ [][(pc' = "for_url" /\ pc # pc' /\ urls' = <<>>) =>
            pc = "retry_wait" /\ attempts = feed_retry_times + 1]_vars

\* the wait after the last attempt of a page, all of them empty
C19_Witness ==
    /\ prog = "sqlite"
    /\ pc = "retry_wait" /\ attempts = feed_retry_times + 1
    /\ urls = <<>>

(***************************************************************************)
(* C20: the collector returns the output of the first of three stages that *)
(* yields a URL: the card links, then all anchors, then the hrefs found in *)
(* the raw markup; it returns nothing only when all three yield nothing.   *)
(***************************************************************************)
C20_FallbackChain ==
    (call.fn = "collect_listing_urls" /\ call.at = "returned") =>
        LET fromCards == FilterUrls(call.page.cards, <<>>)
            fromAnchors == FilterUrls(call.page.anchors, <<>>)
            fromHtml == extract_urls_from_html(call.page.html)
        IN  call.out = IF fromCards # <<>> THEN fromCards
                       ELSE IF fromAnchors # <<>> THEN fromAnchors
                       ELSE fromHtml

(***************************************************************************)
(* C21: parse_ld_json never raises: whatever the script element holds      *)
(* (nothing, no text, text that is not JSON, or JSON whose top level is an *)
(* object, an array, a string or a number), the call returns a fragment,   *)
(* and the fragment is empty when the text is not JSON.                    *)
(***************************************************************************)
C21_LdJsonNeverRaises ==
    call.fn = "parse_ld_json" =>
        /\ call.at # "raised"
        /\ (call.at = "returned" /\ ~call.script.valid) => call.out = EmptyFragment

(***************************************************************************)
(* C22: once STOP is set no feed page is navigated to and no detail page   *)
(* visit is started; only the visit in flight when the flag was set may    *)
(* complete, so at most one record is persisted between the setting of the *)
(* flag and the teardown.                                                  *)
(***************************************************************************)
C22_GraceTailBounded ==
    /\ [](grace <= 1)
    \* no navigation and no visit starts in a state with STOP set
    /\ [][(STOP /\ pc' # pc) => pc' \notin {"goto_feed", "scrape"}]_vars
    \* a record persisted with STOP set is that of the visit in flight
    /\ [][grace' > grace =>
            /\ STOP /\ pc \in {"append_csv", "db_upsert"}
            /\ row.listing_url = urls[idx]]_vars
    \* the flag stays set until the process ends
    /\ [][(STOP /\ ~STOP') => pc' \in {"start", "dead"}]_vars

\* the run has ended after a stop that came during a visit, whose record was
\* persisted
C22_Witness ==
    /\ pc = "exited" /\ STOP
    /\ grace = 1

====
